---- MODULE Spec2Model ----
(***************************************************************************)
(* A model of user_auth/auth_system.py: the UserAuthSystem credential      *)
(* store and session manager, with the Claude text oracle as an input.     *)
(*                                                                         *)
(* Python values are modelled as follows.  Strings are TLA+ strings, and   *)
(* the string operations of the code (strip, replace, lower, upper,        *)
(* slicing, `in`, f-strings) are computed character by character.  Tuples  *)
(* are sequences.  dicts are functions.  A datetime is a whole number of   *)
(* hours since 2024-01-01T00:00:00.  None in a place that otherwise holds  *)
(* a string is the value None below; an Optional[dict] is a sequence of at *)
(* most one dict.  hashlib.sha256(x).hexdigest() is a one-way function     *)
(* that is modelled as collision free: the text "sha256(x)".  A JSON       *)
(* document is kept apart from the dict it was dumped from: its values are *)
(* JSON strings and JSON null.                                             *)
(***************************************************************************)
EXTENDS Integers, Sequences, FiniteSets, TLC

\* ------------------------------------------------------------------ bounds
\* how many times, in all, a registration succeeds, a login succeeds, the
\* clock reading advances or the store is created again
MaxEvents == 3

\* timedelta(hours=24)
SessionHours == 24

\* -------------------------------------------------------------- the inputs
Usernames == {"charlie", "bob"}
Passwords == {"123", "MyStr0ng!Pass2024"}
Emails == {"user@example.com"}

None == "<None>"

\* A token no login ever returned.
BogusToken == "deadbeef"

\* ------------------------------------------------------- string operations
\* needle in hay
Contains(needle, hay) ==
    \E i \in 1..(Len(hay) - Len(needle) + 1) :
        SubSeq(hay, i, i + Len(needle) - 1) = needle

CharAt(s, i) == SubSeq(s, i, i)

UpperLetters == "ABCDEFGHIJKLMNOPQRSTUVWXYZ"
LowerLetters == "abcdefghijklmnopqrstuvwxyz"

\* the character of `to` at the place c has in `from`, or c itself
MapChar(c, from, to) ==
    IF \E i \in 1..Len(from) : CharAt(from, i) = c
    THEN CharAt(to, CHOOSE i \in 1..Len(from) : CharAt(from, i) = c)
    ELSE c

RECURSIVE MapString(_, _, _)
MapString(s, from, to) ==
    IF Len(s) = 0 THEN ""
    ELSE MapChar(CharAt(s, 1), from, to)
         \o MapString(SubSeq(s, 2, Len(s)), from, to)

\* str.lower()
Lower(s) == MapString(s, UpperLetters, LowerLetters)

\* str.upper()
Upper(s) == MapString(s, LowerLetters, UpperLetters)

\* the whitespace str.strip() removes
IsSpace(c) == c \in {" ", "\t", "\n", "\r"}

\* str.strip()
RECURSIVE LStrip(_)
LStrip(s) ==
    IF Len(s) > 0 /\ IsSpace(CharAt(s, 1))
    THEN LStrip(SubSeq(s, 2, Len(s))) ELSE s

RECURSIVE RStrip(_)
RStrip(s) ==
    IF Len(s) > 0 /\ IsSpace(CharAt(s, Len(s)))
    THEN RStrip(SubSeq(s, 1, Len(s) - 1)) ELSE s

Strip(s) == RStrip(LStrip(s))

\* s.replace("**", "")
RECURSIVE RemoveStars(_)
RemoveStars(s) ==
    IF Len(s) = 0 THEN ""
    ELSE IF Len(s) >= 2 /\ SubSeq(s, 1, 2) = "**"
         THEN RemoveStars(SubSeq(s, 3, Len(s)))
         ELSE CharAt(s, 1) \o RemoveStars(SubSeq(s, 2, Len(s)))

\* s[:n]
Prefix(s, n) == SubSeq(s, 1, IF Len(s) < n THEN Len(s) ELSE n)

\* ------------------------------------------------------------- the clock
Digits == "0123456789"

TwoDigits(n) == CharAt(Digits, (n \div 10) + 1) \o CharAt(Digits, (n % 10) + 1)

\* datetime.isoformat() of the reading t (hours since 2024-01-01T00:00:00;
\* the microsecond part is 0 and isoformat leaves it out)
IsoFormat(t) ==
    "2024-01-" \o TwoDigits((t \div 24) + 1) \o "T" \o TwoDigits(t % 24) \o ":00:00"

\* ---------------------------------------------------------------- hashing
Sha256Hex(s) == "sha256(" \o s \o ")"

\* _hash_password
HashPassword(password) == Sha256Hex(password)

\* the session token of login
SessionToken(username, reading) == Sha256Hex(username \o IsoFormat(reading))

\* ------------------------------------------------------------- the oracle
\* What one ClaudeSDKClient exchange gives the caller: the call raises, the
\* response holds no TextBlock, or the first TextBlock holds a text.
OracleRaises == [kind |-> "raise", text |-> ""]
OracleNoText == [kind |-> "none", text |-> ""]
OracleText(s) == [kind |-> "text", text |-> s]
\* register_user returned before it reached the exchange
OracleNotCalled == [kind |-> "uncalled", text |-> ""]

PasswordTexts ==
    { " **VALID**: good mix",
      "INVALID: too short",
      "**INVALID**: extremely weak, digits only",
      "This password is strong.",
      "I cannot assess this password" }

EmailTexts == { " yes ", "NO", "Looks fine to me" }

PasswordOutcomes ==
    {OracleRaises, OracleNoText, OracleNotCalled} \cup {OracleText(s) : s \in PasswordTexts}
EmailOutcomes ==
    {OracleRaises, OracleNoText, OracleNotCalled} \cup {OracleText(s) : s \in EmailTexts}

\* validate_password_strength, for a response that holds a TextBlock
ClassifyPasswordText(text) ==
    LET response == Strip(text)
        response_clean == Strip(RemoveStars(response))
        lower == Lower(response)
    IN  IF Contains("VALID:", response_clean)
           \/ Contains("VALID", Prefix(response_clean, 20))
        THEN IF Contains("extremely weak", lower) \/ Contains("very weak", lower)
             THEN <<FALSE, response>>
             ELSE <<TRUE, response>>
        ELSE IF Contains("INVALID:", response_clean)
        THEN <<FALSE, response>>
        ELSE << \/ (Contains("meets", lower) /\ Contains("requirement", lower))
                \/ (Contains("strong", lower) /\ ~Contains("weak", lower)),
                response >>

\* validate_password_strength, for an exchange that did not raise
ValidatePasswordStrength(outcome) ==
    IF outcome.kind = "text"
    THEN ClassifyPasswordText(outcome.text)
    ELSE <<FALSE, "Unable to validate password">>

\* _validate_email, for an exchange that did not raise
ValidateEmail(outcome) ==
    IF outcome.kind = "text"
    THEN Contains("YES", Upper(Strip(outcome.text)))
    ELSE FALSE

\* The two validators over the outcomes above, computed once.
PasswordVerdict == [o \in PasswordOutcomes |-> ValidatePasswordStrength(o)]
EmailVerdict == [o \in EmailOutcomes |-> ValidateEmail(o)]

\* ---------------------------------------------------------------- state
VARIABLES
    users,        \* self.users: username -> record
    disk,         \* the JSON document at db_path
    sessions,     \* self.sessions: token -> session
    now,          \* what datetime.now() reads
    events,       \* registrations and logins that succeeded, clock advances
                  \* and re-creations of the store
    call,         \* the call that has just returned, with its inputs
    ret,          \* what that call returned
    attempted,    \* usernames register_user has been called with, in any run
    regPassword,  \* username -> password of its successful register_user
    issued,       \* token -> the session of the last login that returned it
    loggedOut,    \* tokens for which a logout has returned True
    revoked,      \* tokens passed to logout with no successful login since
    expired,      \* tokens verify_session has deleted as expired
    recreated,    \* the store was created again and no login has succeeded since
    tasks         \* caller -> its register_user call when callers run concurrently

vars == <<users, disk, sessions, now, events, call, ret,
          attempted, regPassword, issued, loggedOut, revoked, expired,
          recreated, tasks>>

history == <<attempted, regPassword, issued, loggedOut, revoked, expired>>

EmptyMap == [x \in {} |-> x]

\* f with key k set to v (d[k] = v)
Put(f, k, v) == [x \in DOMAIN f \cup {k} |-> IF x = k THEN v ELSE f[x]]

\* f without key k (del d[k], d.pop(k, None))
Drop(f, k) == [x \in DOMAIN f \ {k} |-> f[x]]

\* between two calls: the caller has taken the last result
NoCall == [op |-> "none"]
NoRet == [raised |-> FALSE, value |-> <<>>]

Returned(value) == [raised |-> FALSE, value |-> value]
Raises == [raised |-> TRUE, value |-> <<>>]

\* the record register_user stores
NewUser(password, email, reading) ==
    [password_hash |-> HashPassword(password),
     email |-> email,
     created_at |-> IsoFormat(reading),
     last_login |-> None]

\* json.dump(self.users, f): str becomes a JSON string, None becomes null
JsonNull == [type |-> "null"]
JsonString(s) == [type |-> "string", chars |-> s]
JsonValue(v) == IF v = None THEN JsonNull ELSE JsonString(v)
JsonDump(store) ==
    [u \in DOMAIN store |->
        [password_hash |-> JsonValue(store[u].password_hash),
         email |-> JsonValue(store[u].email),
         created_at |-> JsonValue(store[u].created_at),
         last_login |-> JsonValue(store[u].last_login)]]

\* json.load reading every null as the string "null"
JsonLoadNullAsText(document) ==
    LET value(j) == IF j = JsonNull THEN "null" ELSE j.chars
    IN  [u \in DOMAIN document |->
            [password_hash |-> value(document[u].password_hash),
             email |-> value(document[u].email),
             created_at |-> value(document[u].created_at),
             last_login |-> value(document[u].last_login)]]

\* json.load(f): a JSON string becomes str, null becomes None
JsonLoad(document) ==
    LET value(j) == IF j = JsonNull THEN None ELSE j.chars
    IN  [u \in DOMAIN document |->
            [password_hash |-> value(document[u].password_hash),
             email |-> value(document[u].email),
             created_at |-> value(document[u].created_at),
             last_login |-> value(document[u].last_login)]]

\* the user an earlier run of the program left in the file at db_path, with
\* the password it was registered with
EarlierUser == "charlie"
EarlierPassword == "MyStr0ng!Pass2024"
EarlierDocument ==
    JsonDump(Put(EmptyMap, EarlierUser,
                 NewUser(EarlierPassword, "user@example.com", 0)))

\* no caller is inside register_user
Callers == {1, 2}
Idle == [pc |-> "idle"]
NoTasks == [c \in Callers |-> Idle]

\* __init__: _load_users reads the file at db_path if there is one (no file
\* and a file holding {} both give the empty store)
Init ==
    /\ disk \in {JsonDump(EmptyMap), EarlierDocument}
    /\ users = JsonLoad(disk)
    /\ sessions = EmptyMap
    /\ now = 0
    /\ events = 0
    /\ call = NoCall
    /\ ret = NoRet
    /\ attempted = DOMAIN disk
    /\ regPassword = [u \in DOMAIN disk |-> EarlierPassword]
    /\ issued = EmptyMap
    /\ loggedOut = {}
    /\ revoked = {}
    /\ expired = {}
    /\ recreated = FALSE
    /\ tasks = NoTasks

\* how far the reading advances at once: the life of a session, or an hour more
Advances == {SessionHours, SessionHours + 1}

\* datetime.now() gives a later reading
Tick ==
    /\ call = NoCall
    /\ events < MaxEvents
    /\ \E d \in Advances : now' = now + d
    /\ events' = events + 1
    /\ UNCHANGED <<users, disk, sessions, call, ret>>
    /\ UNCHANGED history
    /\ UNCHANGED <<recreated, tasks>>

\* the caller takes the result (success, msg = await auth.register_user(...))
TakeResult ==
    /\ call # NoCall
    /\ call' = NoCall
    /\ ret' = NoRet
    /\ UNCHANGED <<users, disk, sessions, now, events>>
    /\ UNCHANGED history
    /\ UNCHANGED <<recreated, tasks>>

DuplicateMessage(username) == "Username '" \o username \o "' already exists"
WeakMessage(feedback) == "Weak password: " \o feedback
InvalidEmailMessage == "Invalid email format"
RegisteredMessage(username, feedback) ==
    "User '" \o username \o "' registered successfully! " \o feedback

\* whether register_user gets as far as the password exchange, and as far as
\* the email exchange
AsksPassword(username) == username \notin DOMAIN users
AsksEmail(username, pwOutcome) ==
    /\ AsksPassword(username)
    /\ pwOutcome.kind # "raise"
    /\ PasswordVerdict[pwOutcome][1]

\* register_user without its duplicate check
RegisterOutcomeOverwrites(username, password, email, pwOutcome, emailOutcome) ==
    LET strength == PasswordVerdict[pwOutcome]
        keep(r) == [users |-> users, saved |-> FALSE, ret |-> r]
    IN  IF pwOutcome.kind = "raise"
        THEN keep(Raises)
        ELSE IF ~strength[1]
        THEN keep(Returned(<<FALSE, WeakMessage(strength[2])>>))
        ELSE IF emailOutcome.kind = "raise"
        THEN keep(Raises)
        ELSE IF ~EmailVerdict[emailOutcome]
        THEN keep(Returned(<<FALSE, InvalidEmailMessage>>))
        ELSE [users |-> Put(users, username, NewUser(password, email, now)),
              saved |-> TRUE,
              ret |-> Returned(<<TRUE, RegisteredMessage(username, strength[2])>>)]

\* register_user storing the record before it validates the email
RegisterOutcomeStoresFirst(username, password, email, pwOutcome, emailOutcome) ==
    LET strength == PasswordVerdict[pwOutcome]
        keep(r) == [users |-> users, saved |-> FALSE, ret |-> r]
        stored == Put(users, username, NewUser(password, email, now))
    IN  IF username \in DOMAIN users
        THEN keep(Returned(<<FALSE, DuplicateMessage(username)>>))
        ELSE IF pwOutcome.kind = "raise"
        THEN keep(Raises)
        ELSE IF ~strength[1]
        THEN keep(Returned(<<FALSE, WeakMessage(strength[2])>>))
        ELSE IF emailOutcome.kind = "raise"
        THEN keep(Raises)
        ELSE IF ~EmailVerdict[emailOutcome]
        THEN [users |-> stored, saved |-> FALSE,
              ret |-> Returned(<<FALSE, InvalidEmailMessage>>)]
        ELSE [users |-> stored,
              saved |-> TRUE,
              ret |-> Returned(<<TRUE, RegisteredMessage(username, strength[2])>>)]

\* what register_user does to users and what it returns, from the oracle's
\* two outcomes: [users, saved, ret]
RegisterOutcome(username, password, email, pwOutcome, emailOutcome) ==
    LET strength == PasswordVerdict[pwOutcome]
        keep(r) == [users |-> users, saved |-> FALSE, ret |-> r]
    IN  IF username \in DOMAIN users
        THEN keep(Returned(<<FALSE, DuplicateMessage(username)>>))
        ELSE IF pwOutcome.kind = "raise"
        THEN keep(Raises)
        ELSE IF ~strength[1]
        THEN keep(Returned(<<FALSE, WeakMessage(strength[2])>>))
        ELSE IF emailOutcome.kind = "raise"
        THEN keep(Raises)
        ELSE IF ~EmailVerdict[emailOutcome]
        THEN keep(Returned(<<FALSE, InvalidEmailMessage>>))
        ELSE [users |-> Put(users, username, NewUser(password, email, now)),
              saved |-> TRUE,
              ret |-> Returned(<<TRUE, RegisteredMessage(username, strength[2])>>)]

\* register_user, with no other call between its steps
RegisterUser(username, password, email, pwOutcome, emailOutcome) ==
    LET out == RegisterOutcome(username, password, email, pwOutcome, emailOutcome)
    IN  /\ call = NoCall
        /\ pwOutcome.kind # "uncalled" <=> AsksPassword(username)
        /\ emailOutcome.kind # "uncalled" <=> AsksEmail(username, pwOutcome)
        /\ out.saved => events < MaxEvents
        /\ users' = out.users
        /\ disk' = IF out.saved THEN JsonDump(out.users) ELSE disk
        /\ call' = [op |-> "register_user", username |-> username,
                    password |-> password, email |-> email,
                    pwOutcome |-> pwOutcome, emailOutcome |-> emailOutcome]
        /\ ret' = out.ret
        /\ events' = IF out.saved THEN events + 1 ELSE events
        /\ attempted' = attempted \cup {username}
        /\ regPassword' = IF out.saved THEN Put(regPassword, username, password)
                          ELSE regPassword
        /\ UNCHANGED <<sessions, now, issued, loggedOut, revoked, expired>>
        /\ UNCHANGED <<recreated, tasks>>

InvalidCredentials == <<FALSE, "Invalid username or password", None>>
WelcomeMessage(username) == "Welcome back, " \o username \o "!"

\* the dict login stores in self.sessions
NewSession(username, loginReading, expiryReading) ==
    [username |-> username,
     login_time |-> loginReading,
     expires_at |-> expiryReading + SessionHours]

\* login without its password check
AuthenticatesByUsername(username, password) == username \in DOMAIN users

\* whether login gets past its two checks
Authenticates(username, password) ==
    /\ username \in DOMAIN users
    /\ users[username].password_hash = HashPassword(password)

\* login; r1..r4 are the readings of its four datetime.now() calls
Login(username, password, r1, r2, r3, r4) ==
    /\ call = NoCall
    /\ now <= r1 /\ r1 <= r2 /\ r2 <= r3 /\ r3 <= r4 /\ r4 <= now + 1
    /\ call' = [op |-> "login", username |-> username, password |-> password,
                readings |-> <<r1, r2, r3, r4>>]
    /\ IF ~Authenticates(username, password)
       THEN /\ r4 = now
            /\ ret' = Returned(InvalidCredentials)
            /\ UNCHANGED <<users, disk, sessions, now, events>>
            /\ UNCHANGED <<issued, revoked, recreated>>
       ELSE LET session_token == SessionToken(username, r1)
                session == NewSession(username, r2, r3)
                updated == [users EXCEPT ![username].last_login = IsoFormat(r4)]
                advanced == IF r4 > now THEN 1 ELSE 0
            IN  /\ events + advanced < MaxEvents
                /\ sessions' = Put(sessions, session_token, session)
                /\ users' = updated
                /\ disk' = JsonDump(updated)
                /\ now' = r4
                /\ events' = events + 1 + advanced
                /\ ret' = Returned(<<TRUE, WelcomeMessage(username), session_token>>)
                /\ issued' = Put(issued, session_token, session)
                /\ revoked' = {}
                /\ recreated' = FALSE
    /\ UNCHANGED <<attempted, regPassword, loggedOut, expired, tasks>>

\* verify_session without its expiry check
VerifySessionNoExpiry(session_token) ==
    /\ call = NoCall
    /\ call' = [op |-> "verify_session", session_token |-> session_token]
    /\ IF session_token \notin DOMAIN sessions
       THEN ret' = Returned(<<FALSE, None>>)
       ELSE ret' = Returned(<<TRUE, sessions[session_token].username>>)
    /\ UNCHANGED <<users, disk, sessions, now, events>>
    /\ UNCHANGED history
    /\ UNCHANGED <<recreated, tasks>>

\* verify_session
VerifySession(session_token) ==
    /\ call = NoCall
    /\ call' = [op |-> "verify_session", session_token |-> session_token]
    /\ IF session_token \notin DOMAIN sessions
       THEN /\ ret' = Returned(<<FALSE, None>>)
            /\ UNCHANGED <<sessions, expired>>
       ELSE IF now > sessions[session_token].expires_at
       THEN /\ sessions' = Drop(sessions, session_token)
            /\ ret' = Returned(<<FALSE, None>>)
            /\ expired' = expired \cup {session_token}
       ELSE /\ ret' = Returned(<<TRUE, sessions[session_token].username>>)
            /\ UNCHANGED <<sessions, expired>>
    /\ UNCHANGED <<users, disk, now, events>>
    /\ UNCHANGED <<attempted, regPassword, issued, loggedOut, revoked>>
    /\ UNCHANGED <<recreated, tasks>>

\* logout emptying the session mapping
LogoutAll(session_token) ==
    /\ call = NoCall
    /\ call' = [op |-> "logout", session_token |-> session_token]
    /\ IF session_token \in DOMAIN sessions
       THEN /\ sessions' = EmptyMap
            /\ ret' = Returned(<<TRUE>>)
            /\ loggedOut' = loggedOut \cup {session_token}
       ELSE /\ ret' = Returned(<<FALSE>>)
            /\ UNCHANGED <<sessions, loggedOut>>
    /\ revoked' = revoked \cup {session_token}
    /\ UNCHANGED <<users, disk, now, events>>
    /\ UNCHANGED <<attempted, regPassword, issued, expired>>
    /\ UNCHANGED <<recreated, tasks>>

\* logout
Logout(session_token) ==
    /\ call = NoCall
    /\ call' = [op |-> "logout", session_token |-> session_token]
    /\ IF session_token \in DOMAIN sessions
       THEN /\ sessions' = Drop(sessions, session_token)
            /\ ret' = Returned(<<TRUE>>)
            /\ loggedOut' = loggedOut \cup {session_token}
       ELSE /\ ret' = Returned(<<FALSE>>)
            /\ UNCHANGED <<sessions, loggedOut>>
    /\ revoked' = revoked \cup {session_token}
    /\ UNCHANGED <<users, disk, now, events>>
    /\ UNCHANGED <<attempted, regPassword, issued, expired>>
    /\ UNCHANGED <<recreated, tasks>>

\* get_user_info returning the stored record as it is
UserInfoWithHash(username) ==
    IF username \notin DOMAIN users THEN <<>> ELSE << users[username] >>

\* what get_user_info returns: no dict, or one
UserInfo(username) ==
    IF username \notin DOMAIN users
    THEN <<>>
    ELSE << Drop(users[username], "password_hash") >>

\* get_user_info
GetUserInfo(username) ==
    /\ call = NoCall
    /\ call' = [op |-> "get_user_info", username |-> username]
    /\ ret' = Returned(UserInfo(username))
    /\ UNCHANGED <<users, disk, sessions, now, events>>
    /\ UNCHANGED history
    /\ UNCHANGED <<recreated, tasks>>

\* what the oracle may do with the analysis prompt
AnalysisOutcomes ==
    {OracleNotCalled, OracleRaises, OracleNoText,
     OracleText("1. Use a longer password. 2. Log in regularly.")}

\* the prompt analyze_security_risk sends
AnalysisPrompt(username) ==
    LET user_info == UserInfo(username)[1]
    IN  "Analyze this user account security:\n- Created: "
        \o user_info.created_at
        \o "\n- Last login: "
        \o (IF user_info.last_login = None THEN "Never"
            ELSE user_info.last_login)
        \o "\n\nProvide 2-3 brief security recommendations."

\* analyze_security_risk; a str result is a tuple of one value
AnalyzeSecurityRisk(username, outcome) ==
    /\ call = NoCall
    /\ outcome.kind # "uncalled" <=> username \in DOMAIN users
    /\ call' = [op |-> "analyze_security_risk", username |-> username,
                prompt |-> IF username \in DOMAIN users
                           THEN AnalysisPrompt(username) ELSE None,
                outcome |-> outcome]
    /\ ret' = IF username \notin DOMAIN users
              THEN Returned(<<"User not found">>)
              ELSE IF outcome.kind = "raise"
              THEN Raises
              ELSE IF outcome.kind = "text"
              THEN Returned(<<outcome.text>>)
              ELSE Returned(<<"Unable to analyze security">>)
    /\ UNCHANGED <<users, disk, sessions, now, events>>
    /\ UNCHANGED history
    /\ UNCHANGED <<recreated, tasks>>

\* the tokens a caller holds, and one no login returned
Tokens == DOMAIN issued \cup {BogusToken}

Register ==
    \E username \in Usernames, password \in Passwords, email \in Emails,
       pwOutcome \in PasswordOutcomes, emailOutcome \in EmailOutcomes :
        RegisterUser(username, password, email, pwOutcome, emailOutcome)

LoginCall ==
    \E username \in Usernames, password \in Passwords,
       r1 \in {now, now + 1}, r2 \in {now, now + 1},
       r3 \in {now, now + 1}, r4 \in {now, now + 1} :
        Login(username, password, r1, r2, r3, r4)

VerifyCall == \E session_token \in Tokens : VerifySession(session_token)

LogoutCall == \E session_token \in Tokens : Logout(session_token)

InfoCall == \E username \in Usernames : GetUserInfo(username)

AnalysisCall ==
    \E username \in Usernames, outcome \in AnalysisOutcomes :
        AnalyzeSecurityRisk(username, outcome)

Next ==
    \/ Tick
    \/ TakeResult
    \/ Register
    \/ LoginCall
    \/ VerifyCall
    \/ LogoutCall
    \/ InfoCall
    \/ AnalysisCall

Spec == Init /\ [][Next]_vars

\* ------------------------------------------------------- process restart
\* The process ends and UserAuthSystem(db_path) is constructed again on the
\* same file: __init__ sets self.sessions = {} and self.users = _load_users().
\* The tokens callers hold (issued) outlive the process.
Restart ==
    /\ call = NoCall
    /\ events < MaxEvents
    /\ users' = JsonLoad(disk)
    /\ sessions' = EmptyMap
    /\ call' = [op |-> "__init__"]
    /\ ret' = NoRet
    /\ events' = events + 1
    /\ recreated' = TRUE
    /\ UNCHANGED <<disk, now, tasks>>
    /\ UNCHANGED history

NextRestart ==
    \/ Next
    \/ Restart

SpecRestart == Init /\ [][NextRestart]_vars

\* --------------------------------------------------- concurrent callers
\* Callers that await register_user on one store at the same time.  The body
\* of register_user runs from one await of the oracle to the next without
\* giving way: the duplicate check up to the password exchange, the strength
\* verdict up to the email exchange, and the email verdict up to the return.
RaceEmails == {"charlie@example.com", "charlie2@example.com"}

\* a task with its program counter moved and fields set
TaskAt(c, pc, fields) == [tasks EXCEPT ![c] = [pc |-> pc] @@ fields @@ tasks[c]]
TaskDone(c, r) == TaskAt(c, "done", [ret |-> r])

\* lines 124-129: the duplicate check, then the await of the password verdict
BeginRegister(c, username, password, email) ==
    /\ call = NoCall
    /\ tasks[c] = Idle
    /\ LET mine == [username |-> username, password |-> password,
                    email |-> email]
       IN  tasks' = IF username \in DOMAIN users
                    THEN TaskAt(c, "done", mine @@
                           [ret |-> Returned(<<FALSE, DuplicateMessage(username)>>)])
                    ELSE TaskAt(c, "password", mine)
    /\ attempted' = attempted \cup {username}
    /\ UNCHANGED <<users, disk, sessions, now, events, call, ret>>
    /\ UNCHANGED <<regPassword, issued, loggedOut, revoked, expired, recreated>>

\* lines 129-134: the password verdict arrives, then the await of the email
\* verdict
PasswordReply(c, pwOutcome) ==
    /\ tasks[c].pc = "password"
    /\ pwOutcome.kind # "uncalled"
    /\ LET strength == PasswordVerdict[pwOutcome]
       IN  tasks' = IF pwOutcome.kind = "raise"
                    THEN TaskDone(c, Raises)
                    ELSE IF ~strength[1]
                    THEN TaskDone(c, Returned(<<FALSE, WeakMessage(strength[2])>>))
                    ELSE TaskAt(c, "email", [feedback |-> strength[2]])
    /\ UNCHANGED <<users, disk, sessions, now, events, call, ret>>
    /\ UNCHANGED history
    /\ UNCHANGED recreated

\* the email verdict arrives; the call looks at self.users again before it
\* writes
EmailReplyChecksAgain(c, emailOutcome) ==
    LET mine == tasks[c]
    IN  /\ mine.pc = "email"
        /\ emailOutcome.kind # "uncalled"
        /\ IF emailOutcome.kind = "raise"
           THEN /\ tasks' = TaskDone(c, Raises)
                /\ UNCHANGED <<users, disk, events, regPassword>>
           ELSE IF ~EmailVerdict[emailOutcome]
           THEN /\ tasks' = TaskDone(c, Returned(<<FALSE, InvalidEmailMessage>>))
                /\ UNCHANGED <<users, disk, events, regPassword>>
           ELSE IF mine.username \in DOMAIN users
           THEN /\ tasks' = TaskDone(c, Returned(<<FALSE,
                                         DuplicateMessage(mine.username)>>))
                /\ UNCHANGED <<users, disk, events, regPassword>>
           ELSE /\ events < MaxEvents
                /\ users' = Put(users, mine.username,
                                NewUser(mine.password, mine.email, now))
                /\ disk' = JsonDump(users')
                /\ events' = events + 1
                /\ regPassword' = Put(regPassword, mine.username, mine.password)
                /\ tasks' = TaskDone(c, Returned(<<TRUE,
                       RegisteredMessage(mine.username, mine.feedback)>>))
        /\ UNCHANGED <<sessions, now, call, ret>>
        /\ UNCHANGED <<attempted, issued, loggedOut, revoked, expired, recreated>>

\* lines 134-147: the email verdict arrives, then the write, the save and the
\* return
EmailReply(c, emailOutcome) ==
    LET mine == tasks[c]
    IN  /\ mine.pc = "email"
        /\ emailOutcome.kind # "uncalled"
        /\ IF emailOutcome.kind = "raise"
           THEN /\ tasks' = TaskDone(c, Raises)
                /\ UNCHANGED <<users, disk, events, regPassword>>
           ELSE IF ~EmailVerdict[emailOutcome]
           THEN /\ tasks' = TaskDone(c, Returned(<<FALSE, InvalidEmailMessage>>))
                /\ UNCHANGED <<users, disk, events, regPassword>>
           ELSE /\ events < MaxEvents
                /\ users' = Put(users, mine.username,
                                NewUser(mine.password, mine.email, now))
                /\ disk' = JsonDump(users')
                /\ events' = events + 1
                /\ regPassword' = Put(regPassword, mine.username, mine.password)
                /\ tasks' = TaskDone(c, Returned(<<TRUE,
                       RegisteredMessage(mine.username, mine.feedback)>>))
        /\ UNCHANGED <<sessions, now, call, ret>>
        /\ UNCHANGED <<attempted, issued, loggedOut, revoked, expired, recreated>>

BeginCall ==
    \E c \in Callers, username \in Usernames, password \in Passwords,
       email \in RaceEmails :
        BeginRegister(c, username, password, email)

PasswordStep ==
    \E c \in Callers, pwOutcome \in PasswordOutcomes : PasswordReply(c, pwOutcome)

EmailStep ==
    \E c \in Callers, emailOutcome \in EmailOutcomes : EmailReply(c, emailOutcome)

NextRace ==
    \/ BeginCall
    \/ PasswordStep
    \/ EmailStep

SpecRace == Init /\ [][NextRace]_vars

\* ------------------------------------------------------------ properties
\* this step is a call of op: call' holds its inputs and ret' its result
Calls(op) == call = NoCall /\ call'.op = op

DuplicateUser(username) == Returned(<<FALSE, DuplicateMessage(username)>>)

\* C1, as claimed: a register_user call with a username that an earlier
\* register_user call was made with returns the DuplicateUser failure,
\* whatever the earlier call returned.
C1_SecondCallAlwaysDuplicate ==
    [][ (Calls("register_user") /\ call'.username \in attempted)
        => ret' = DuplicateUser(call'.username) ]_vars

\* C1, amended: a register_user call with a username for which an earlier
\* register_user call returned success returns the DuplicateUser failure and
\* leaves the store as it was.
C1_DuplicateAfterSuccess ==
    [][ (Calls("register_user") /\ call'.username \in DOMAIN regPassword)
        => /\ ret' = DuplicateUser(call'.username)
           /\ UNCHANGED <<users, disk>> ]_vars

\* a second register_user of a registered username has returned DuplicateUser
C1_Witness ==
    /\ call.op = "register_user"
    /\ call.username \in DOMAIN regPassword
    /\ call.username # EarlierUser
    /\ ret = DuplicateUser(call.username)

\* C2: login with the username and password of a successful register_user
\* returns success and a non-empty token; login with another password for
\* that username, or with a username absent from the store, returns the one
\* InvalidCredentials result.
C2_LoginChecksPassword ==
    [][ Calls("login") =>
        LET u == call'.username
            p == call'.password
        IN  IF u \in DOMAIN regPassword /\ regPassword[u] = p
            THEN /\ ~ret'.raised
                 /\ ret'.value[1] = TRUE
                 /\ ret'.value[3] # None
                 /\ Len(ret'.value[3]) > 0
            ELSE /\ u \in DOMAIN regPassword \/ u \notin DOMAIN users
                 /\ ret' = Returned(InvalidCredentials) ]_vars

\* both halves have happened: a login of a user registered in this run has
\* succeeded, after which a login with the other password was turned down
C2_Witness ==
    /\ call.op = "login"
    /\ call.username \in DOMAIN regPassword
    /\ call.username # EarlierUser
    /\ regPassword[call.username] # call.password
    /\ ret = Returned(InvalidCredentials)
    /\ users[call.username].last_login # None

\* C3: verify_session(t) of a token t that a login returned gives (True, u)
\* when no logout(t) has returned True and the session has not expired, and
\* gives (False, None) once a logout(t) has returned True.
C3_VerifyFollowsLogout ==
    [][ Calls("verify_session") =>
        LET t == call'.session_token
        IN  /\ (t \in DOMAIN issued /\ t \notin loggedOut
                /\ now <= issued[t].expires_at)
               => ret' = Returned(<<TRUE, issued[t].username>>)
            /\ t \in loggedOut => ret' = Returned(<<FALSE, None>>) ]_vars

\* C4: verify_session of a token whose session has expires_at earlier than
\* the clock reading returns (False, None) and deletes the session; a token
\* deleted so is reported invalid ever after; a session leaves the mapping
\* only by that deletion or by logout of its token; and the session a login
\* stores expires SessionHours after the reading the login took for it.
C4_ExpiredNeverValid ==
    [][ /\ Calls("verify_session") =>
            LET t == call'.session_token
            IN  /\ (t \in DOMAIN sessions /\ sessions[t].expires_at < now)
                   => /\ ret' = Returned(<<FALSE, None>>)
                      /\ t \notin DOMAIN sessions'
                /\ t \in expired => ret' = Returned(<<FALSE, None>>)
        /\ \A t \in DOMAIN sessions \ DOMAIN sessions' :
            \/ /\ Calls("verify_session") /\ call'.session_token = t
               /\ sessions[t].expires_at < now
            \/ Calls("logout") /\ call'.session_token = t
        /\ (Calls("login") /\ ret'.value[1])
           => sessions'[ret'.value[3]].expires_at
                  = call'.readings[3] + SessionHours ]_vars

\* verify_session has found a session expired, deleted it and returned
\* (False, None)
C4_Witness ==
    /\ call.op = "verify_session"
    /\ call.session_token \in expired
    /\ call.session_token \notin DOMAIN sessions
    /\ ret = Returned(<<FALSE, None>>)
    /\ now > issued[call.session_token].expires_at

\* C5: get_user_info of a username not in the store returns None; otherwise
\* it returns a dict without the key password_hash whose other keys and
\* values are those of the stored record; the store stays as it was.
C5_InfoHidesHash ==
    [][ Calls("get_user_info") =>
        LET u == call'.username
        IN  /\ ~ret'.raised
            /\ IF u \notin DOMAIN users
               THEN ret'.value = <<>>
               ELSE /\ Len(ret'.value) = 1
                    /\ "password_hash" \notin DOMAIN ret'.value[1]
                    /\ DOMAIN ret'.value[1]
                           = DOMAIN users[u] \ {"password_hash"}
                    /\ \A k \in DOMAIN ret'.value[1] :
                           ret'.value[1][k] = users[u][k]
                    /\ "password_hash" \in DOMAIN users'[u]
            /\ UNCHANGED <<users, disk>> ]_vars

\* get_user_info of a user who has logged in has returned a dict
C5_Witness ==
    /\ call.op = "get_user_info"
    /\ call.username \in DOMAIN users
    /\ users[call.username].last_login # None
    /\ Len(ret.value) = 1

\* a reply of the form "INVALID: message"
IsCanonicalInvalid(outcome) ==
    outcome.kind = "text" /\ Prefix(outcome.text, 8) = "INVALID:"

IsWeakCredential(r) ==
    /\ ~r.raised
    /\ r.value[1] = FALSE
    /\ Prefix(r.value[2], 15) = "Weak password: "

\* C6: register_user of a username not in the store returns the
\* WeakCredential failure when the password reply has the form
\* "INVALID: message", and the InvalidEmail failure when the email reply is
\* "NO"; either way no record is created for the username.
C6_NegativeVerdictRejects ==
    [][ (Calls("register_user") /\ call'.username \notin DOMAIN users) =>
        /\ IsCanonicalInvalid(call'.pwOutcome)
           => /\ IsWeakCredential(ret')
              /\ call'.username \notin DOMAIN users'
        /\ call'.emailOutcome = OracleText("NO")
           => /\ ret' = Returned(<<FALSE, InvalidEmailMessage>>)
              /\ call'.username \notin DOMAIN users' ]_vars

\* the exchange failed, gave no text, or gave a text with neither verdict
PasswordUnavailable(outcome) ==
    \/ outcome.kind \in {"raise", "none"}
    \/ outcome.kind = "text" /\ ~Contains("VALID", outcome.text)

EmailUnavailable(outcome) ==
    \/ outcome.kind \in {"raise", "none"}
    \/ /\ outcome.kind = "text"
       /\ ~Contains("YES", Upper(outcome.text))
       /\ ~Contains("NO", Upper(outcome.text))

\* C7: when an exchange register_user makes fails, gives no text or gives a
\* text with no verdict token, register_user returns a failure result (it
\* does not raise and does not accept) and creates no record.
C7_OracleFailureRejects ==
    [][ ( /\ Calls("register_user")
          /\ \/ PasswordUnavailable(call'.pwOutcome)
             \/ EmailUnavailable(call'.emailOutcome) )
        => /\ ~ret'.raised
           /\ ret'.value[1] = FALSE
           /\ UNCHANGED <<users, disk>> ]_vars

\* C8: the token a successful login returns is not a key of the session
\* mapping and is not the token of any earlier successful login.
C8_TokensAreFresh ==
    [][ (Calls("login") /\ ret'.value[1])
        => /\ ret'.value[3] \notin DOMAIN sessions
           /\ ret'.value[3] \notin DOMAIN issued ]_vars

\* C9: logout(t) returns True exactly when t is a key of the session
\* mapping, deletes t and nothing else, and touches no user record; a
\* logout(t) after an earlier logout(t), with no successful login since,
\* returns False and changes nothing.
C9_LogoutRemovesOnlyItsToken ==
    [][ Calls("logout") =>
        LET t == call'.session_token
        IN  /\ ret' = Returned(<< t \in DOMAIN sessions >>)
            /\ sessions' = Drop(sessions, t)
            /\ UNCHANGED <<users, disk>>
            /\ t \in revoked
               => /\ ret' = Returned(<<FALSE>>)
                  /\ UNCHANGED sessions ]_vars

\* a second logout of a token has returned False while the session of
\* another login is still there
C9_Witness ==
    /\ call.op = "logout"
    /\ call.session_token \in loggedOut
    /\ ret = Returned(<<FALSE>>)
    /\ DOMAIN sessions # {}

\* C10: a register_user or login call that returns a failure result leaves
\* the user store, the session mapping and the JSON document as they were,
\* and the failure is one of DuplicateUser, WeakCredential, InvalidEmail and
\* InvalidCredentials.
C10_FailureChangesNothing ==
    [][ ( /\ Calls("register_user") \/ Calls("login")
          /\ ~ret'.raised
          /\ ret'.value[1] = FALSE )
        => /\ UNCHANGED <<users, sessions, disk>>
           /\ IF call'.op = "login"
              THEN ret' = Returned(InvalidCredentials)
              ELSE \/ ret' = DuplicateUser(call'.username)
                   \/ IsWeakCredential(ret')
                   \/ ret' = Returned(<<FALSE, InvalidEmailMessage>>) ]_vars

\* register_user has returned InvalidEmail with a user and a session in place
C10_Witness ==
    /\ call.op = "register_user"
    /\ ret = Returned(<<FALSE, InvalidEmailMessage>>)
    /\ DOMAIN users # {}
    /\ DOMAIN sessions # {}
    /\ disk = JsonDump(users)

Succeeded(task) ==
    /\ task.pc = "done"
    /\ ~task.ret.raised
    /\ task.ret.value[1]

\* C12: callers running register_user concurrently lose updates: a call that
\* passed the duplicate check before its oracle exchanges never looks at the
\* store again; when its email exchange ends it fails on the email or
\* writes its record and returns success, whatever the store holds by then.
\* When the username is in the store at that moment, it was put there by the
\* other caller's call, which returned success too, and that record
\* (password hash, email) is replaced in the store and in the document.
C12_LostUpdate ==
    [][ \A c \in Callers :
          ( tasks[c].pc = "email" /\ tasks'[c].pc = "done" )
          => LET mine == tasks[c]
                 record == NewUser(mine.password, mine.email, now)
             IN  \/ /\ tasks'[c].ret \in
                         {Raises, Returned(<<FALSE, InvalidEmailMessage>>)}
                    /\ UNCHANGED <<users, disk>>
                 \/ /\ Succeeded(tasks'[c])
                    /\ users' = Put(users, mine.username, record)
                    /\ disk' = JsonDump(users')
                    /\ mine.username \in DOMAIN users
                       => \E d \in Callers \ {c} :
                            /\ Succeeded(tasks[d])
                            /\ tasks[d].username = mine.username
                            /\ users[mine.username] =
                                 NewUser(tasks[d].password, tasks[d].email, now) ]_vars

\* both callers have returned success for the same username with different
\* passwords and emails, and the store and the document hold the record of
\* caller 2 only
C12_Witness ==
    /\ Succeeded(tasks[1])
    /\ Succeeded(tasks[2])
    /\ tasks[1].username = tasks[2].username
    /\ tasks[1].password # tasks[2].password
    /\ tasks[1].email # tasks[2].email
    /\ users[tasks[2].username] =
          NewUser(tasks[2].password, tasks[2].email, now)
    /\ disk = JsonDump(users)

\* verify_session, logout, get_user_info and analyze_security_risk leave
\* the user store and the document as they are
ReadersChangeNoUser ==
    ( \/ Calls("verify_session")
      \/ Calls("logout")
      \/ Calls("get_user_info")
      \/ Calls("analyze_security_risk") )
    => UNCHANGED <<users, disk>>

\* a successful login(u, p) changes no more than the last_login of u
LoginChangesLastLoginOnly ==
    ( Calls("login") /\ ret'.value[1] )
    => LET u == call'.username
       IN  /\ DOMAIN users' = DOMAIN users
           /\ users' = [users EXCEPT ![u].last_login = users'[u].last_login]
           /\ disk' = JsonDump(users')

\* a successful login adds one session and leaves the others as they are
LoginAddsOneSession ==
    ( Calls("login") /\ ret'.value[1] )
    => /\ Cardinality(DOMAIN sessions') = Cardinality(DOMAIN sessions) + 1
       /\ \A t \in DOMAIN sessions :
            t \in DOMAIN sessions' /\ sessions'[t] = sessions[t]

\* C13: verify_session, logout, get_user_info and analyze_security_risk
\* leave the user store and the document unchanged; a successful login(u, p)
\* changes only the last_login of u's record and adds exactly one session;
\* and no operation removes a user from the store.
C13_OnlyRegisterAndLoginMutate ==
    [][ /\ ReadersChangeNoUser
        /\ LoginChangesLastLoginOnly
        /\ LoginAddsOneSession
        /\ DOMAIN users \subseteq DOMAIN users' ]_vars

====
